---- MODULE Spec2Model ----
(***************************************************************************)
(* Model of export_kibana.py: list the Kibana spaces, validate the         *)
(* requested space ids, write spaces_details.json, then for every selected *)
(* space POST an export request, write the NDJSON answer to                *)
(* <export_dir>/<space_id>.json and split export/<space_id>.json into one  *)
(* file per document under output_<space_id>/.                             *)
(*                                                                         *)
(* Strings that the program inspects character by character (titles, file  *)
(* names) are sequences of one-character strings.  A path is a pair        *)
(* <<directory, file name>>, the directory being the one the path string   *)
(* leads to.  A line of a file is described by the class of its text,      *)
(* which is all that decoding, str.strip, json.loads, the dict lookups and *)
(* json.dump depend on.                                                    *)
(***************************************************************************)
EXTENDS Integers, Sequences, FiniteSets, TLC

VARIABLES
    pc,                \* position of main: "get_spaces", "validate", "details",
                       \* "export", "split", "done", "exited", "crashed"
    args_spaces,       \* args.spaces; <<>> stands for an omitted --spaces (None)
    export_dir,        \* args.export_dir: the string and the directory it leads to
    all_spaces,        \* answer of GET /api/spaces/space
    spaces_to_export,  \* main's selection (line 105)
    idx,               \* 0-based position of the for loop in spaces_to_export
    fs_export,         \* the files <dir>/<name>.json of the export directories:
                       \* path <<dir, name>> -> lines of the file
    details_calls,     \* one record per call of export_space_details
    fs_output,         \* the split documents: <<output_dir, file name>> -> the
                       \* document and whether json.dump wrote all of it
    posts,             \* one record per call of export_objects: the space id,
                       \* the answer's status, and what was written to disk
    error_log,         \* space ids named by validate_spaces' logging.error
    exit_code,         \* -1 while running, else the process's exit status
    exception,         \* the uncaught exception that ended the run, or "none"
    split_calls        \* one record per call of parse_and_save_documents

vars == <<pc, args_spaces, export_dir, all_spaces, spaces_to_export, idx,
          fs_export, details_calls, fs_output, posts, error_log, exit_code,
          exception, split_calls>>

-----------------------------------------------------------------------------
(* Bounds of the model *)

MaxRequested == 2      \* longest --spaces list
MaxLines == 2          \* most lines of an NDJSON file given to the splitter alone
MaxTitleLen == 2       \* longest attributes.title

ServerIds == {"a", "spaces_details"}     \* ids the server can report
RequestIds == ServerIds \cup {"x", "y"}  \* ids the user can ask for
TitleChars == {"a", " ", "/"}            \* characters of a title
NulChar == "NUL"                         \* the character U+0000
SurrogateChar == "U+D800"                \* a lone surrogate, as the escape \ud800 gives

\* Values of args.export_dir: the string given, and the directory the file
\* system resolves it to from the working directory ("export" is the directory
\* the splitter's 'export/' leads to).  "mirror" is a symbolic link to it;
\* "/tmp/export" is another directory of the same name.
ExportDirs ==
    {[text |-> "export", real |-> "export"],
     [text |-> "export/", real |-> "export"],
     [text |-> "./export", real |-> "export"],
     [text |-> "/srv/kibana/export", real |-> "export"],
     [text |-> "backup", real |-> "backup"],
     [text |-> "mirror", real |-> "export"],
     [text |-> "/tmp/export", real |-> "/tmp/export"]}
Statuses == {200, 404, 500}              \* HTTP status codes of an answer

SeqsUpTo(S, n) == UNION {[1..k -> S] : k \in 0..n}

Range(s) == {s[k] : k \in 1..Len(s)}

IsPrefix(s, t) == Len(s) <= Len(t) /\ \A k \in 1..Len(s) : s[k] = t[k]

-----------------------------------------------------------------------------
(* Strings *)

DocumentPrefix == <<"d", "o", "c", "u", "m", "e", "n", "t", "_">>
DotJson == <<".", "j", "s", "o", "n">>
Digits == <<"0", "1", "2", "3", "4", "5", "6", "7", "8", "9">>

\* str(n) for n >= 0
RECURSIVE ToStr(_)
ToStr(n) ==
    IF n < 10 THEN <<Digits[n + 1]>>
    ELSE ToStr(n \div 10) \o <<Digits[(n % 10) + 1]>>

\* A replace that stops after the first occurrence.
replace_first(s, old, new) ==
    LET hits == {k \in 1..Len(s) : s[k] = old}
    IN [k \in 1..Len(s) |-> IF k \in hits /\ (\A j \in hits : k <= j) THEN new ELSE s[k]]

\* str.replace(old, new) for one-character old and new
replace(s, old, new) == [k \in 1..Len(s) |-> IF s[k] = old THEN new ELSE s[k]]

-----------------------------------------------------------------------------
(* NDJSON lines and json.loads *)

Titles == SeqsUpTo(TitleChars, MaxTitleLen)

\* A line of text.  kind is the class of its text: white space only, bytes
\* that are no UTF-8, text that is no JSON, a JSON value json.loads gives up on
\* with ValueError (an integer literal past the digit limit) or with
\* RecursionError (nesting past the recursion limit), a JSON number, a JSON
\* array, a JSON object.  For an object: attributes is "absent", "dict" or
\* "null" (any value that is no dict), title_type is "absent", "str" or "int"
\* (any value that is no str).  spaces is the list an array line holds.
\* encodable is FALSE when a string of the value holds a lone surrogate.
Line(kind, attributes, title_type, title, spaces) ==
    [kind |-> kind, attributes |-> attributes, title_type |-> title_type,
     title |-> title, spaces |-> spaces, encodable |-> SurrogateChar \notin Range(title)]

\* Longest file name the file system takes
NameMax == 255

\* The shortest title whose file name is longer than NameMax
LongTitle == [k \in 1..(NameMax - Len(DotJson) + 1) |-> "a"]

\* The line with a lone surrogate in a string other than the title
WithSurrogate(line) == [line EXCEPT !.encodable = FALSE]

BlankLine == Line("blank", "absent", "absent", <<>>, <<>>)
BadBytesLine == Line("bad_bytes", "absent", "absent", <<>>, <<>>)
GarbageLine == Line("garbage", "absent", "absent", <<>>, <<>>)
HugeLine == Line("huge", "absent", "absent", <<>>, <<>>)
DeepLine == Line("deep", "absent", "absent", <<>>, <<>>)
NumberLine == Line("number", "absent", "absent", <<>>, <<>>)
ArrayLine(spaces) == Line("array", "absent", "absent", <<>>, spaces)
EmptyObjectLine == Line("object", "absent", "absent", <<>>, <<>>)
NullAttributesLine == Line("object", "null", "absent", <<>>, <<>>)
UntitledLine == Line("object", "dict", "absent", <<>>, <<>>)
IntTitleLine == Line("object", "dict", "int", <<>>, <<>>)
TitledLine(t) == Line("object", "dict", "str", t, <<>>)

Lines == {BlankLine, BadBytesLine, GarbageLine, HugeLine, DeepLine, NumberLine,
          ArrayLine(<<>>), EmptyObjectLine, NullAttributesLine, UntitledLine,
          IntTitleLine, WithSurrogate(UntitledLine), WithSurrogate(TitledLine(<<"a">>)),
          TitledLine(<<NulChar>>), TitledLine(<<SurrogateChar>>),
          TitledLine(LongTitle)}
             \cup {TitledLine(t) : t \in Titles}

\* bool(obj.strip()): the line has a character that is not white space
strip(obj) == obj.kind # "blank"

\* json.loads(obj): the exception it raises, or the value it returns
json_loads(obj) ==
    [raised |-> CASE obj.kind \in {"blank", "garbage", "bad_bytes"} -> "JSONDecodeError"
                  [] obj.kind = "huge" -> "ValueError"
                  [] obj.kind = "deep" -> "RecursionError"
                  [] OTHER -> "none",
     value |-> [type |-> CASE obj.kind = "object" -> "dict"
                           [] obj.kind = "array" -> "list"
                           [] OTHER -> "int",
                attributes |-> obj.attributes,
                title_type |-> obj.title_type,
                title |-> obj.title,
                encodable |-> obj.encodable]]

\* The for loop of parse_nonstandard_json over content.splitlines().  Only
\* JSONDecodeError is caught; any other exception of json.loads leaves the
\* function.
RECURSIVE parse_lines(_, _, _)
parse_lines(json_objects, documents, errors) ==
    IF json_objects = <<>>
    THEN [raised |-> "none", documents |-> documents, errors |-> errors]
    ELSE LET obj == Head(json_objects)
             rest == Tail(json_objects)
         IN IF ~strip(obj) THEN parse_lines(rest, documents, errors)
            ELSE IF json_loads(obj).raised = "none"
                 THEN parse_lines(rest, Append(documents, json_loads(obj).value), errors)
            ELSE IF json_loads(obj).raised = "JSONDecodeError"
                 THEN parse_lines(rest, documents, Append(errors, obj))
            ELSE [raised |-> json_loads(obj).raised, documents |-> documents,
                  errors |-> errors]

\* parse_nonstandard_json on the lines of the file: the exception it raises,
\* the documents it returns and the lines its "Error during parsing" print
\* reported.  f.read() decodes the whole file as UTF-8 before any line is
\* looked at.
parse_nonstandard_json(content) ==
    IF \E k \in 1..Len(content) : content[k].kind = "bad_bytes"
    THEN [raised |-> "UnicodeDecodeError", documents |-> <<>>, errors |-> <<>>]
    ELSE parse_lines(content, <<>>, <<>>)

-----------------------------------------------------------------------------
(* parse_and_save_documents *)

\* f'document_{i + 1}'
DefaultTitle(i) == DocumentPrefix \o ToStr(i + 1)

\* doc.get('attributes', {}).get('title', f'document_{i + 1}'): the first get
\* raises AttributeError on a document that is no dict, the second on an
\* attributes value that is no dict; is_str tells whether the title is a str
get_title(doc, i) ==
    IF doc.type # "dict" \/ doc.attributes = "null"
    THEN [raised |-> "AttributeError", is_str |-> FALSE, title |-> <<>>]
    ELSE IF doc.attributes = "dict" /\ doc.title_type # "absent"
    THEN [raised |-> "none", is_str |-> doc.title_type = "str", title |-> doc.title]
    ELSE [raised |-> "none", is_str |-> TRUE, title |-> DefaultTitle(i)]

\* A sanitizer that replaces only the first space and the first slash.
sanitize_first_only(title) == replace_first(replace_first(title, " ", "_"), "/", "_")

\* title.replace(' ', '_').replace('/', '_') on a str
sanitize(title) == replace(replace(title, " ", "_"), "/", "_")

\* os.path.join(output_dir, f'{sanitized_title}.json')
output_file(output_dir, sanitized_title) == <<output_dir, sanitized_title \o DotJson>>

\* open(output_file, 'w', encoding='utf-8'): the exception it raises on the
\* file name, "none" when it creates or truncates the file
open_raises(name) ==
    IF SurrogateChar \in Range(name) THEN "UnicodeEncodeError"
    ELSE IF NulChar \in Range(name) THEN "ValueError"
    ELSE IF Len(name) > NameMax THEN "OSError"
    ELSE "none"

\* json.dump(doc, f_out, indent=4, ensure_ascii=False) raises
\* UnicodeEncodeError on a lone surrogate, part of the text already written
json_dump_raises(doc) == ~doc.encodable

\* What an output file holds
FileOf(doc, complete) == [doc |-> doc, complete |-> complete]

\* The for loop of parse_and_save_documents from index i on.  Line 32 raises
\* as get_title says, line 33 raises AttributeError on a title that is no str,
\* line 35 as open_raises says, line 36 as json_dump_raises says and leaves the
\* file cut short; the files written before stay.  opened lists the paths
\* handed to open(), saved the paths of the "Document saved" prints.
RECURSIVE save_documents(_, _, _, _, _, _)
save_documents(documents, i, output_dir, out, saved, opened) ==
    IF i >= Len(documents)
    THEN [raised |-> "none", out |-> out, saved |-> saved, opened |-> opened]
    ELSE LET doc == documents[i + 1]
             t == get_title(doc, i)
         IN IF t.raised # "none"
            THEN [raised |-> t.raised, out |-> out, saved |-> saved, opened |-> opened]
            ELSE IF ~t.is_str
            THEN [raised |-> "AttributeError", out |-> out, saved |-> saved,
                  opened |-> opened]
            ELSE LET f == output_file(output_dir, sanitize(t.title))
                 IN IF open_raises(f[2]) # "none"
                    THEN [raised |-> open_raises(f[2]), out |-> out, saved |-> saved,
                          opened |-> Append(opened, f)]
                    ELSE IF json_dump_raises(doc)
                    THEN [raised |-> "UnicodeEncodeError",
                          out |-> (f :> FileOf(doc, FALSE)) @@ out,
                          saved |-> saved, opened |-> Append(opened, f)]
                    ELSE save_documents(documents, i + 1, output_dir,
                                        (f :> FileOf(doc, TRUE)) @@ out,
                                        Append(saved, f), Append(opened, f))

\* parse_and_save_documents(input_file, output_dir) on the file systems fs and
\* out: the exception it raises, the output files it leaves, the lines it read,
\* the parse errors it printed, the paths it opened for writing and the
\* "Document saved" names it printed.
parse_and_save_documents(fs, out, input_file, output_dir) ==
    IF input_file \notin DOMAIN fs
    THEN [input_file |-> input_file, output_dir |-> output_dir,
          raised |-> "FileNotFoundError", out |-> out,
          content |-> <<>>, errors |-> <<>>, saved |-> <<>>, opened |-> <<>>]
    ELSE LET parsed == parse_nonstandard_json(fs[input_file])
             r == IF parsed.raised # "none"
                  THEN [raised |-> parsed.raised, out |-> out, saved |-> <<>>,
                        opened |-> <<>>]
                  ELSE save_documents(parsed.documents, 0, output_dir, out, <<>>, <<>>)
         IN [input_file |-> input_file, output_dir |-> output_dir,
             raised |-> r.raised, out |-> r.out,
             content |-> fs[input_file], errors |-> parsed.errors,
             saved |-> r.saved, opened |-> r.opened]

-----------------------------------------------------------------------------
(* Spaces *)

Space(id) == [id |-> id]

\* The lists the server can answer: every order of every subset of ServerIds
SpaceLists ==
    {[k \in 1..Len(s) |-> Space(s[k])] :
        s \in {t \in SeqsUpTo(ServerIds, Cardinality(ServerIds)) :
                  \A j, k \in 1..Len(t) : j # k => t[j] # t[k]}}

\* response.raise_for_status() raises HTTPError
raise_for_status(status) == 400 <= status /\ status < 600

\* [space['id'] for space in all_spaces]
valid_spaces(all) == [k \in 1..Len(all) |-> all[k].id]

\* A validation that reports the first unknown id only.
first_invalid_space(spaces, all) ==
    LET inv == SelectSeq(spaces, LAMBDA s : s \notin Range(valid_spaces(all)))
    IN IF inv = <<>> THEN <<>> ELSE <<Head(inv)>>

\* [space for space in spaces if space not in valid_spaces] if spaces else []
invalid_spaces(spaces, all) ==
    IF spaces # <<>>
    THEN SelectSeq(spaces, LAMBDA s : s \notin Range(valid_spaces(all)))
    ELSE <<>>

\* A selection that filters also when --spaces is omitted.
select_spaces_always_filter(spaces, all) ==
    SelectSeq(all, LAMBDA sp : sp.id \in Range(spaces))

\* all_spaces if not args.spaces else [space for space in all_spaces if space['id'] in args.spaces]
select_spaces(spaces, all) ==
    IF spaces = <<>> THEN all
    ELSE SelectSeq(all, LAMBDA sp : sp.id \in Range(spaces))

\* The directory the splitter's hard-coded 'export/' leads to
HardcodedDir == "export"

\* The directory an export_dir leads to, as the file system resolves it
RealDir(dir) == dir.real

\* A splitter input taken from the export directory of the run.
InputFileInExportDir(space) == <<RealDir(export_dir), space.id>>

\* 'export/' + space["id"] + '.json'
InputFile(space) == <<HardcodedDir, space.id>>

\* 'output' + '_' + space["id"]
OutputDir(space) == <<"output", space.id>>

\* os.path.join(export_dir, f"{space_id}.json")
ExportFile(dir, space) == <<RealDir(dir), space.id>>

\* os.path.join(export_dir, 'spaces_details.json')
DetailsFile(dir) == <<RealDir(dir), "spaces_details">>

\* json.dump(spaces, file): one line of text, a JSON array
DetailsContent(spaces) == <<ArrayLine(spaces)>>

\* export_space_details(spaces, export_dir) on the file system fs
export_space_details(fs, spaces, dir) == (DetailsFile(dir) :> DetailsContent(spaces)) @@ fs

EmptyFs == [p \in {} |-> <<>>]

\* What a call of parse_and_save_documents printed and raised
CallRecord(r) ==
    [input_file |-> r.input_file, output_dir |-> r.output_dir, raised |-> r.raised,
     content |-> r.content, errors |-> r.errors, saved |-> r.saved,
     opened |-> r.opened]

-----------------------------------------------------------------------------
(* The run of main *)

\* NDJSON bodies the export endpoint answers with
Responses ==
    {<<>>,
     <<TitledLine(<<"a">>)>>,
     <<GarbageLine, UntitledLine>>,
     <<WithSurrogate(UntitledLine)>>,
     <<NumberLine>>}

\* Content of an NDJSON file left by an earlier run
StaleContent == <<TitledLine(<<"a", " ">>)>>

\* The file systems main can start on: any of the <dir>/<space_id>.json present
InitialExports ==
    {[p \in P |-> StaleContent] :
        P \in SUBSET ({RealDir(d) : d \in ExportDirs} \X ServerIds)}

Init ==
    /\ pc = "get_spaces"
    /\ args_spaces \in SeqsUpTo(RequestIds, MaxRequested)
    /\ export_dir \in ExportDirs
    /\ all_spaces = <<>>
    /\ spaces_to_export = <<>>
    /\ idx = 0
    /\ fs_export \in InitialExports
    /\ details_calls = <<>>
    /\ fs_output = EmptyFs
    /\ posts = <<>>
    /\ error_log = <<>>
    /\ exit_code = -1
    /\ exception = "none"
    /\ split_calls = <<>>

\* all_spaces = get_spaces(session, args.kibana_url)
GetSpaces ==
    /\ pc = "get_spaces"
    /\ \E status \in Statuses :
          IF raise_for_status(status)
          THEN /\ pc' = "crashed"
               /\ exception' = "HTTPError"
               /\ exit_code' = 1
               /\ UNCHANGED all_spaces
          ELSE /\ \E l \in SpaceLists : all_spaces' = l
               /\ pc' = "validate"
               /\ UNCHANGED <<exception, exit_code>>
    /\ UNCHANGED <<args_spaces, export_dir, spaces_to_export, idx, fs_export,
                   details_calls, fs_output, posts, error_log, split_calls>>

\* A validation that logs the unknown ids and goes on.
ValidateSpacesNoExit ==
    /\ pc = "validate"
    /\ error_log' = invalid_spaces(args_spaces, all_spaces)
    /\ pc' = "details"
    /\ UNCHANGED <<args_spaces, export_dir, all_spaces, spaces_to_export, idx,
                   fs_export, details_calls, fs_output, posts, exit_code, exception,
                   split_calls>>

\* validate_spaces(args.spaces, all_spaces)
ValidateSpaces ==
    /\ pc = "validate"
    /\ LET inv == invalid_spaces(args_spaces, all_spaces)
       IN /\ error_log' = inv
          /\ IF inv # <<>>
             THEN /\ pc' = "exited"
                  /\ exit_code' = 1
             ELSE /\ pc' = "details"
                  /\ UNCHANGED exit_code
    /\ UNCHANGED <<args_spaces, export_dir, all_spaces, spaces_to_export, idx,
                   fs_export, details_calls, fs_output, posts, exception, split_calls>>

\* A detail export that is handed all_spaces.
SelectAndExportAllDetails ==
    /\ pc = "details"
    /\ spaces_to_export' = select_spaces(args_spaces, all_spaces)
    /\ fs_export' = export_space_details(fs_export, all_spaces, export_dir)
    /\ details_calls' = Append(details_calls,
                               [path |-> DetailsFile(export_dir), spaces |-> all_spaces])
    /\ idx' = 0
    /\ IF spaces_to_export' = <<>>
       THEN pc' = "done" /\ exit_code' = 0
       ELSE pc' = "export" /\ UNCHANGED exit_code
    /\ UNCHANGED <<args_spaces, export_dir, all_spaces, fs_output,
                   posts, error_log, exception, split_calls>>

\* Lines 105-106 of main: the selection, then export_space_details
SelectAndExportDetails ==
    /\ pc = "details"
    /\ spaces_to_export' = select_spaces(args_spaces, all_spaces)
    /\ fs_export' = export_space_details(fs_export, spaces_to_export', export_dir)
    /\ details_calls' = Append(details_calls,
                               [path |-> DetailsFile(export_dir), spaces |-> spaces_to_export'])
    /\ idx' = 0
    /\ IF spaces_to_export' = <<>>
       THEN pc' = "done" /\ exit_code' = 0
       ELSE pc' = "export" /\ UNCHANGED exit_code
    /\ UNCHANGED <<args_spaces, export_dir, all_spaces, fs_output,
                   posts, error_log, exception, split_calls>>

\* export_objects(session, args.kibana_url, args.export_dir, space, args.types)
ExportObjects ==
    /\ pc = "export"
    /\ LET space == spaces_to_export[idx + 1]
       IN \E status \in Statuses :
             IF raise_for_status(status)
             THEN /\ posts' = Append(posts, [space |-> space.id, status |-> status,
                                             wrote |-> FALSE, content |-> <<>>])
                  /\ UNCHANGED fs_export
             ELSE \E body \in Responses :
                     /\ posts' = Append(posts, [space |-> space.id, status |-> status,
                                                wrote |-> TRUE, content |-> body])
                     /\ fs_export' = (ExportFile(export_dir, space) :> body) @@ fs_export
    /\ pc' = "split"
    /\ UNCHANGED <<args_spaces, export_dir, all_spaces, spaces_to_export, idx,
                   details_calls, fs_output, error_log, exit_code, exception,
                   split_calls>>

\* Lines 110-112 of main: parse_and_save_documents(input_file, output_dir),
\* then the next turn of the loop or its end
ParseAndSaveDocuments ==
    /\ pc = "split"
    /\ LET space == spaces_to_export[idx + 1]
           r == parse_and_save_documents(fs_export, fs_output,
                                         InputFile(space), OutputDir(space))
       IN /\ fs_output' = r.out
          /\ split_calls' = Append(split_calls, CallRecord(r))
          /\ IF r.raised # "none"
             THEN /\ pc' = "crashed"
                  /\ exception' = r.raised
                  /\ exit_code' = 1
                  /\ UNCHANGED idx
             ELSE /\ idx' = idx + 1
                  /\ UNCHANGED exception
                  /\ IF idx + 1 >= Len(spaces_to_export)
                     THEN pc' = "done" /\ exit_code' = 0
                     ELSE pc' = "export" /\ UNCHANGED exit_code
    /\ UNCHANGED <<args_spaces, export_dir, all_spaces, spaces_to_export,
                   fs_export, details_calls, posts, error_log>>

Next ==
    \/ GetSpaces
    \/ ValidateSpaces
    \/ SelectAndExportDetails
    \/ ExportObjects
    \/ ParseAndSaveDocuments

Spec == Init /\ [][Next]_vars

-----------------------------------------------------------------------------
(* parse_and_save_documents on its own: every file of at most MaxLines lines *)

SplitInput == <<HardcodedDir, "a">>
SplitOutputDir == <<"output", "a">>

InitSplit ==
    /\ pc = "call_split"
    /\ args_spaces = <<>>
    /\ export_dir = [text |-> "export", real |-> "export"]
    /\ all_spaces = <<>>
    /\ spaces_to_export = <<>>
    /\ idx = 0
    /\ fs_export \in {EmptyFs} \cup
                       {(SplitInput :> content) : content \in SeqsUpTo(Lines, MaxLines)}
    /\ details_calls = <<>>
    /\ fs_output = EmptyFs
    /\ posts = <<>>
    /\ error_log = <<>>
    /\ exit_code = -1
    /\ exception = "none"
    /\ split_calls = <<>>

\* parse_and_save_documents(input_file, output_dir)
SplitDocuments ==
    /\ pc = "call_split"
    /\ LET r == parse_and_save_documents(fs_export, fs_output, SplitInput, SplitOutputDir)
       IN /\ fs_output' = r.out
          /\ split_calls' = Append(split_calls, CallRecord(r))
          /\ exception' = r.raised
          /\ pc' = IF r.raised = "none" THEN "returned" ELSE "raised"
    /\ UNCHANGED <<args_spaces, export_dir, all_spaces, spaces_to_export, idx,
                   fs_export, details_calls, posts, error_log, exit_code>>

NextSplit == SplitDocuments

SpecSplit == InitSplit /\ [][NextSplit]_vars

-----------------------------------------------------------------------------
(* Vocabulary of the properties *)

KnownIds == Range(valid_spaces(all_spaces))

UnknownRequested == Range(args_spaces) \ KnownIds

HttpError(status) == status >= 400

\* validate_spaces has been called and has returned or exited
ValidationRan == pc \notin {"get_spaces", "validate"} /\ exception # "HTTPError"

\* main is past line 106
SelectionMade == pc \in {"export", "split", "done"} \/ (pc = "crashed" /\ exception # "HTTPError")

RunEnded == pc \in {"done", "exited", "crashed"}

\* export_dir leads to the directory the splitter reads from
ExportDirIsExport == RealDir(export_dir) = HardcodedDir

\* The output files under one output directory
FilesIn(output_dir) == {f \in DOMAIN fs_output : f[1] = output_dir}

\* The text of the line is valid JSON
ValidJson(line) == line.kind \in {"huge", "deep", "number", "array", "object"}

\* json.loads returns a value for the line: the line yields a parsed document
Parsed(line) == json_loads(line).raised = "none"

\* Number of lines among the first j of content that yield a parsed document
ParsedUpTo(content, j) == Cardinality({k \in 1..j : Parsed(content[k])})

\* The line yields a parsed document with a string under attributes.title
HasTitle(line) == line.kind = "object" /\ line.attributes = "dict" /\ line.title_type = "str"

\* The line yields a parsed document with nothing under attributes.title
LacksTitle(line) ==
    Parsed(line) /\ ~(line.kind = "object" /\ line.attributes = "dict" /\ line.title_type # "absent")

\* The spaces --spaces selects, as a set
SelectedSet ==
    IF args_spaces = <<>> THEN Range(all_spaces)
    ELSE {sp \in Range(all_spaces) : sp.id \in Range(args_spaces)}

\* d lists exactly the selected spaces, each once, in the order of all_spaces
IsSelection(d) ==
    /\ Range(d) = SelectedSet
    /\ \A j, k \in 1..Len(d) : j < k =>
          \E m, n \in 1..Len(all_spaces) :
             m < n /\ all_spaces[m] = d[j] /\ all_spaces[n] = d[k]

\* An export of the space with id 'spaces_details' has written its answer
DetailsOverwritten ==
    \E k \in 1..Len(posts) : posts[k].wrote /\ posts[k].space = "spaces_details"

-----------------------------------------------------------------------------
(* Properties *)

\* C1 (as claimed): once an export call has answered with an HTTP error status,
\* the run neither raises nor stops early: when it ends it has ended normally,
\* with an export request and a completed split for every selected space.
C1_HttpErrorDoesNotEndRun ==
    (RunEnded /\ \E k \in 1..Len(posts) : HttpError(posts[k].status))
        => /\ pc = "done"
           /\ Len(posts) = Len(spaces_to_export)
           /\ Len(split_calls) = Len(spaces_to_export)
           /\ \A k \in 1..Len(split_calls) : split_calls[k].raised = "none"

\* C2 (as claimed): after the splitter has handled a file of N lines of which K
\* are valid JSON, the output directory holds exactly K files and exactly N-K
\* parse errors were reported.
C2_ExactlyKFilesAndNMinusKErrors ==
    \A c \in Range(split_calls) :
        LET N == Len(c.content)
            K == Cardinality({k \in 1..N : ValidJson(c.content[k])})
        IN /\ Cardinality(FilesIn(c.output_dir)) = K
           /\ Len(c.errors) = N - K

\* C3: when a requested id is not a known space id, validate_spaces ends the
\* process with exit status 1 and its error log names exactly the requested ids
\* that are not known.
C3_InvalidIdsExitWithAllNamed ==
    (ValidationRan /\ UnknownRequested # {})
        => /\ pc = "exited"
           /\ exit_code = 1
           /\ Range(error_log) = UnknownRequested

C3_Witness ==
    /\ pc = "exited"
    /\ Cardinality(UnknownRequested) = 2
    /\ Range(error_log) = {"x", "y"}

\* C4: before validation has completed, and in every state of a run with an
\* invalid requested id, no export POST has been issued, spaces_details.json
\* has not been written and no split file has been written.
C4_InvalidIdAbortsBeforeAnyEffect ==
    (pc \in {"get_spaces", "validate"} \/ UnknownRequested # {})
        => /\ posts = <<>>
           /\ details_calls = <<>>
           /\ fs_export \in InitialExports
           /\ fs_output = EmptyFs
           /\ split_calls = <<>>

C4_Witness ==
    /\ pc = "exited"
    /\ Range(args_spaces) \cap KnownIds # {}
    /\ UnknownRequested # {}
    /\ posts = <<>>

\* C5: with --spaces omitted or empty, validation logs nothing and does not
\* exit, the selection is the full server list, the export requests go to the
\* known spaces in server order, one each, and a run that reaches the end of
\* main has sent one to every known space.
C5_EmptySelectionSelectsAll ==
    (args_spaces = <<>>)
        => /\ pc # "exited"
           /\ error_log = <<>>
           /\ SelectionMade => spaces_to_export = all_spaces
           /\ IsPrefix([k \in 1..Len(posts) |-> posts[k].space], valid_spaces(all_spaces))
           /\ pc = "done" => [k \in 1..Len(posts) |-> posts[k].space] = valid_spaces(all_spaces)

C5_Witness ==
    /\ args_spaces = <<>>
    /\ pc = "done"
    /\ Len(all_spaces) = 2
    /\ Len(posts) = 2

\* C6 (as claimed): once validation has succeeded and the details are written,
\* spaces_details.json holds the full list of spaces retrieved from the server.
C6_DetailsHoldAllSpaces ==
    SelectionMade => fs_export[DetailsFile(export_dir)] = DetailsContent(all_spaces)

\* C6 (amended): after a successful validation export_space_details is called
\* once, before any export request, and writes to <export_dir>/spaces_details.json
\* the spaces selected for export: the known spaces whose id is in --spaces, in
\* server order, or every known space when --spaces is omitted.  The file keeps
\* that list for the rest of the run unless a selected space has the id
\* 'spaces_details': the export of that space writes the same path, and from
\* then on the file holds the NDJSON answer.
C6_DetailsHoldSelectedSpaces ==
    /\ Len(details_calls) = (IF SelectionMade THEN 1 ELSE 0)
    /\ (pc = "details") => posts = <<>>
    /\ SelectionMade =>
          /\ details_calls[1].path = DetailsFile(export_dir)
          /\ IsSelection(details_calls[1].spaces)
          /\ DetailsFile(export_dir) \in DOMAIN fs_export
          /\ ~DetailsOverwritten =>
                fs_export[DetailsFile(export_dir)] = DetailsContent(details_calls[1].spaces)
          /\ DetailsOverwritten =>
                \E k \in 1..Len(posts) :
                   /\ posts[k].space = "spaces_details"
                   /\ posts[k].wrote
                   /\ fs_export[DetailsFile(export_dir)] = posts[k].content

C6_Witness ==
    /\ pc = "done"
    /\ Len(all_spaces) = 2
    /\ Len(posts) = 1
    /\ posts[1].space = "a"
    /\ fs_export[DetailsFile(export_dir)] = DetailsContent(<<Space("a")>>)

\* C7 (as claimed): for a space whose export answer is not 2xx, export_objects
\* writes nothing to <export_dir>/<space_id>.json and the run leaves no split
\* document file for that space.
C7_FailedExportSkipsSpace ==
    \A k \in 1..Len(posts) :
        posts[k].status \notin 200..299
            => /\ ~posts[k].wrote
               /\ FilesIn(OutputDir(Space(posts[k].space))) = {}

\* C8 (as claimed): every parsed document without attributes.title is saved
\* under document_<p>.json, p being its 1-based position among the parsed
\* documents of the file.
C8_UntitledSavedByParsedPosition ==
    \A c \in Range(split_calls) :
        \A j \in 1..Len(c.content) :
            LacksTitle(c.content[j]) =>
                LET p == ParsedUpTo(c.content, j)
                    name == <<c.output_dir, DocumentPrefix \o ToStr(p) \o DotJson>>
                IN /\ p <= Len(c.saved)
                   /\ c.saved[p] = name
                   /\ name \in DOMAIN fs_output

\* C9: the output file name derived for a parsed document with a (string)
\* title is the title with every space and every '/' turned into '_', every
\* other character kept, followed by '.json', and holds no '/': that is the
\* name handed to open() whenever the loop gets to the document, and the name
\* the document is saved under whenever it is saved.
C9_TitleSanitizedIntoFileName ==
    \A c \in Range(split_calls) :
        \A j \in 1..Len(c.content) :
            HasTitle(c.content[j]) =>
                LET p == ParsedUpTo(c.content, j)
                    t == c.content[j].title
                IN /\ c.raised = "none" => p <= Len(c.saved)
                   /\ p <= Len(c.saved) =>
                         c.saved[p] = c.opened[p] /\ c.saved[p] \in DOMAIN fs_output
                   /\ p <= Len(c.opened) =>
                         LET name == c.opened[p][2]
                         IN /\ c.opened[p][1] = c.output_dir
                            /\ Len(name) = Len(t) + Len(DotJson)
                            /\ \A k \in 1..Len(t) :
                                  name[k] = IF t[k] \in {" ", "/"} THEN "_" ELSE t[k]
                            /\ \A k \in 1..Len(DotJson) : name[Len(t) + k] = DotJson[k]
                            /\ \A k \in 1..Len(name) : name[k] # "/"

C9_Witness ==
    \E c \in Range(split_calls) :
        /\ Len(c.content) >= 1
        /\ HasTitle(c.content[1])
        /\ c.content[1].title \in {<<" ", " ">>, <<"/", "/">>}
        /\ Len(c.saved) >= 1
        /\ c.saved[1][2] = <<"_", "_">> \o DotJson
        /\ fs_output[c.saved[1]].complete

\* C10: the splitter always opens export/<space_id>.json.  That is the path
\* this space's export writes exactly when export_dir leads to the directory
\* 'export', and then a successful export is what the splitter reads; for
\* another export_dir it is a file the run never writes, read as it was before
\* the run or missing.
C10_SplitterReadsHardcodedExportPath ==
    \A k \in 1..Len(split_calls) :
        LET c == split_calls[k]
            space == spaces_to_export[k]
        IN /\ c.input_file = <<HardcodedDir, space.id>>
           /\ (c.input_file = ExportFile(export_dir, space)) <=> ExportDirIsExport
           /\ (ExportDirIsExport /\ posts[k].wrote) =>
                 c.raised # "FileNotFoundError" /\ c.content = posts[k].content
           /\ ~ExportDirIsExport =>
                 /\ \A q \in DOMAIN fs_export :
                       q[1] = HardcodedDir => fs_export[q] = StaleContent
                 /\ IF c.input_file \in DOMAIN fs_export
                    THEN c.raised # "FileNotFoundError" /\ c.content = StaleContent
                    ELSE c.raised = "FileNotFoundError"

C10_Witness ==
    \E k \in 1..Len(split_calls) :
        /\ ~ExportDirIsExport
        /\ posts[k].wrote
        /\ posts[k].content # split_calls[k].content
        /\ split_calls[k].raised = "none"
        /\ split_calls[k].saved # <<>>

====
